---- MODULE Spec2Model ----
(***************************************************************************)
(* Model of backend_python/main.py: the student collection (MongoDB), the   *)
(* upload directory (file system) and the request handlers that keep the    *)
(* two consistent.  Every handler is split at the calls that touch the      *)
(* database or the file system, so that the intermediate states of a        *)
(* request are states of the model.                                         *)
(***************************************************************************)
EXTENDS Integers, Sequences, FiniteSets, TLC

\* ------------------------------------------------------------------ bounds
MaxStudents == 2
MaxEmails == 1
MaxTime == 1
MaxFaults == 1

\* --------------------------------------------------------------- constants
MAX_FILE_SIZE == 5 * 1024 * 1024

\* ------------------------------------------------------------ input domains
\* Well-formed ObjectId strings, in the order insert_one hands them out.
IdPool == <<"o1", "o2", "o3", "o4">>
ObjectIds == {IdPool[i] : i \in 1..MaxStudents}
\* Identifiers a client may put in the URL: the well-formed ones and one
\* string that bson.ObjectId rejects.
RequestIds == ObjectIds \cup {"zz"}

PdfA == <<"a", ".", "p", "d", "f">>
TxtA == <<"a", ".", "t", "x", "t">>
Filenames == {PdfA, TxtA}

\* File contents: a byte string is represented by its length and a tag that
\* tells two byte strings of the same length apart.
Contents == { [len |-> 10, tag |-> "x"],
              [len |-> MAX_FILE_SIZE, tag |-> "y"],
              [len |-> MAX_FILE_SIZE + 1, tag |-> "x"] }
NoContent == [len |-> 0, tag |-> ""]

\* Profiles of POST /api/students (the email is what create_student looks at)
EmailPool == <<"a@x.com", "b@x.com", "c@x.com">>
Profiles == {[name |-> "A", email |-> EmailPool[i]] : i \in 1..MaxEmails}
NoProfile == [name |-> "", email |-> ""]

Procs == {1, 2}

VARIABLES
    students,   \* students_collection: ObjectId -> <<>> or <<document>>
    disk,       \* UPLOAD_DIR: path -> content, for the paths that exist
    now,        \* datetime.now(), in seconds
    req,        \* per worker: the request being handled and its response
    uploaded,   \* per student: the bytes of the last successful upload, as
                \* the client knows them; <<>> once an upload or delete for
                \* the student has been taken up since (one that is turned
                \* down on arrival changes nothing)
    faults      \* number of storage calls that have raised so far

vars == <<students, disk, now, req, uploaded, faults>>

\* ------------------------------------------------------------------ helpers
\* bson.ObjectId(student_id) raises InvalidId unless the string is well formed
IsObjectId(id) == \E i \in 1..Len(IdPool) : IdPool[i] = id

\* str.endswith
EndsWith(s, suffix) ==
    /\ Len(s) >= Len(suffix)
    /\ SubSeq(s, Len(s) - Len(suffix) + 1, Len(s)) = suffix

DotPdf == <<".", "p", "d", "f">>

\* f"resume-{student_id}-{timestamp}-{resume.filename}" under UPLOAD_DIR.
\* The id and the timestamp have fixed widths, so the string is determined by
\* (and determines) the triple.
FilePath(id, timestamp, filename) == <<id, timestamp, filename>>

\* students_collection.find_one({"_id": ObjectId(id)}): <<>> or <<document>>
FindOne(id) == IF id \in DOMAIN students THEN students[id] ELSE <<>>

\* Path.exists()
Exists(path) == path \in DOMAIN disk

\* (mutant of WriteFile: the file is created and the content never written)
WriteFileEmpty(path, content) ==
    [q \in DOMAIN disk \cup {path} |-> IF q = path THEN NoContent ELSE disk[q]]

\* the file system after open(path, "wb").write(content)
WriteFile(path, content) ==
    [q \in DOMAIN disk \cup {path} |-> IF q = path THEN content ELSE disk[q]]

\* (mutant of Unlink: the file is left in place)
UnlinkKeepsFile(path) == disk

\* the file system after Path.unlink()
Unlink(path) == [q \in DOMAIN disk \ {path} |-> disk[q]]

\* (mutant of SetResumeFile: a resumeFile already in the record is kept)
SetResumeFileIfAbsent(id, rf) ==
    [students EXCEPT ![id] =
        IF students[id] = <<>> THEN <<>>
        ELSE IF students[id][1].resumeFile # <<>> THEN students[id]
        ELSE << [students[id][1] EXCEPT !.resumeFile = <<rf>>] >>]

\* update_one({"_id": id}, {"$set": {field: value}}) and $unset
SetResumeFile(id, rf) ==
    [students EXCEPT ![id] =
        IF students[id] = <<>> THEN <<>>
        ELSE << [students[id][1] EXCEPT !.resumeFile = <<rf>>] >>]

SetResumeAnalysis(id, an) ==
    [students EXCEPT ![id] =
        IF students[id] = <<>> THEN <<>>
        ELSE << [students[id][1] EXCEPT !.resumeAnalysis = <<an>>] >>]

UnsetResume(id) ==
    [students EXCEPT ![id] =
        IF students[id] = <<>> THEN <<>>
        ELSE << [students[id][1] EXCEPT !.resumeFile = <<>>,
                                        !.resumeAnalysis = <<>>] >>]

\* ----------------------------------------------------------- request slots
Idle == [op |-> "none", pc |-> "idle", id |-> "", filename |-> <<>>,
         content |-> NoContent, profile |-> NoProfile, student |-> <<>>,
         path |-> <<>>, warned |-> FALSE,
         status |-> 0, detail |-> "", body |-> <<>>]

Free(p) == req[p].pc \in {"idle", "done"}

\* a handler returns or raises HTTPException: the request with its response
Respond(r, status, detail, body) ==
    [r EXCEPT !.pc = "done", !.status = status, !.detail = detail,
              !.body = body]

Init ==
    /\ students = [id \in ObjectIds |-> <<>>]
    /\ disk = << >>
    /\ now = 0
    /\ req = [p \in Procs |-> Idle]
    /\ uploaded = [id \in ObjectIds |-> <<>>]
    /\ faults = 0

\* the clock of datetime.now() advances
Tick ==
    /\ now < MaxTime
    /\ now' = now + 1
    /\ UNCHANGED <<students, disk, req, uploaded, faults>>

\* ---------------------------------------------- POST /api/students/{id}/resume
\* The handler up to "await resume.read()": the check of the filename.
UploadBegin(p, id, filename) ==
    /\ Free(p)
    /\ LET r == [Idle EXCEPT !.op = "upload", !.id = id,
                             !.filename = filename]
       IN  req' = [req EXCEPT ![p] =
             IF ~EndsWith(filename, DotPdf)
               THEN Respond(r, 400, "Only PDF files are allowed", <<>>)
             ELSE [r EXCEPT !.pc = "read"]]
    /\ UNCHANGED <<students, disk, now, uploaded, faults>>

\* (mutant of UploadRead: the size check rejects a file of exactly the limit)
UploadReadExclusiveLimit(p, content) ==
    /\ req[p].op = "upload" /\ req[p].pc = "read"
    /\ LET r == [req[p] EXCEPT !.content = content]
       IN  req' = [req EXCEPT ![p] =
             IF content.len >= MAX_FILE_SIZE
               THEN Respond(r, 413, "File too large. Maximum size is 5MB", <<>>)
             ELSE IF ~IsObjectId(r.id)
               THEN Respond(r, 500, "Failed to upload resume", <<>>)
             ELSE IF FindOne(r.id) = <<>>
               THEN Respond(r, 404, "Student not found", <<>>)
             ELSE [r EXCEPT !.pc = "unlink_old",
                            !.student = FindOne(r.id),
                            !.path = FilePath(r.id, now, r.filename)]]
    /\ uploaded' = [i \in ObjectIds |->
                      IF i = req[p].id /\ req'[p].pc # "done" THEN <<>>
                      ELSE uploaded[i]]
    /\ UNCHANGED <<students, disk, now, faults>>

\* The content has been read: the check of its size, ObjectId(student_id),
\* find_one and the stored name.
UploadRead(p, content) ==
    /\ req[p].op = "upload" /\ req[p].pc = "read"
    /\ LET r == [req[p] EXCEPT !.content = content]
       IN  req' = [req EXCEPT ![p] =
             IF content.len > MAX_FILE_SIZE
               THEN Respond(r, 413, "File too large. Maximum size is 5MB", <<>>)
             ELSE IF ~IsObjectId(r.id)
               THEN Respond(r, 500, "Failed to upload resume", <<>>)
             ELSE IF FindOne(r.id) = <<>>
               THEN Respond(r, 404, "Student not found", <<>>)
             ELSE [r EXCEPT !.pc = "unlink_old",
                            !.student = FindOne(r.id),
                            !.path = FilePath(r.id, now, r.filename)]]
    /\ uploaded' = [i \in ObjectIds |->
                      IF i = req[p].id /\ req'[p].pc # "done" THEN <<>>
                      ELSE uploaded[i]]
    /\ UNCHANGED <<students, disk, now, faults>>

\* "Delete old resume file if it exists": old_file_path.unlink() when the
\* document read has a resumeFile and its file exists, nothing otherwise
\* (Unlink leaves a directory without the path as it is)
UploadUnlinkOld(p) ==
    /\ req[p].op = "upload" /\ req[p].pc = "unlink_old"
    /\ disk' = IF req[p].student[1].resumeFile # <<>>
                THEN Unlink(req[p].student[1].resumeFile[1].filePath)
                ELSE disk
    /\ req' = [req EXCEPT ![p].pc = "write"]
    /\ UNCHANGED <<students, now, uploaded, faults>>

\* old_file_path.unlink() raises: logged as a warning, the upload goes on
UploadUnlinkOldFails(p) ==
    /\ faults < MaxFaults
    /\ faults' = faults + 1
    /\ req[p].op = "upload" /\ req[p].pc = "unlink_old"
    /\ req[p].student[1].resumeFile # <<>>
    /\ Exists(req[p].student[1].resumeFile[1].filePath)
    /\ req' = [req EXCEPT ![p].pc = "write", ![p].warned = TRUE]
    /\ UNCHANGED <<students, disk, now, uploaded>>

\* "Save new file"
UploadWrite(p) ==
    /\ req[p].op = "upload" /\ req[p].pc = "write"
    /\ disk' = WriteFile(req[p].path, req[p].content)
    /\ req' = [req EXCEPT ![p].pc = "update"]
    /\ UNCHANGED <<students, now, uploaded, faults>>

\* the resumeFile document of the handler
\* (uploadedAt, a timestamp no handler reads back, is not carried)
ResumeData(r) ==
    [originalName |-> r.filename, filePath |-> r.path,
     fileSize |-> r.content.len]

\* "Update student document" and the response
UploadUpdate(p) ==
    /\ req[p].op = "upload" /\ req[p].pc = "update"
    /\ students' = SetResumeFile(req[p].id, ResumeData(req[p]))
    /\ req' = [req EXCEPT ![p] =
                 Respond(@, 200, "Resume uploaded successfully", <<>>)]
    /\ uploaded' = [uploaded EXCEPT ![req[p].id] = <<req[p].content>>]
    /\ UNCHANGED <<disk, now, faults>>

\* ------------------------------------ GET /api/students/{id}/resume/download
DownloadResponse(r) ==
    IF ~IsObjectId(r.id)
      THEN Respond(r, 500, "Failed to download resume", <<>>)
    ELSE IF FindOne(r.id) = <<>> \/ FindOne(r.id)[1].resumeFile = <<>>
      THEN Respond(r, 404, "Resume not found", <<>>)
    ELSE IF ~Exists(FindOne(r.id)[1].resumeFile[1].filePath)
      THEN Respond(r, 404, "Resume file not found on disk", <<>>)
    ELSE Respond(r, 200, "", <<disk[FindOne(r.id)[1].resumeFile[1].filePath]>>)

Download(p, id) ==
    /\ Free(p)
    /\ req' = [req EXCEPT ![p] =
                 DownloadResponse([Idle EXCEPT !.op = "download", !.id = id])]
    /\ UNCHANGED <<students, disk, now, uploaded, faults>>

\* ------------------------------------------- GET /api/students/{id}/resume
\* The handler has no "except HTTPException: raise": the HTTPException(404)
\* raised inside the try block is caught by "except Exception" and replaced
\* by HTTPException(500).
GetResumeResponse(r) ==
    IF ~IsObjectId(r.id)
      THEN Respond(r, 500, "Failed to fetch resume", <<>>)
    ELSE IF FindOne(r.id) = <<>>
      THEN Respond(r, 500, "Failed to fetch resume", <<>>)
    ELSE IF FindOne(r.id)[1].resumeFile = <<>>
      THEN Respond(r, 500, "Failed to fetch resume", <<>>)
    ELSE Respond(r, 200, "", <<FindOne(r.id)[1]>>)

GetResume(p, id) ==
    /\ Free(p)
    /\ req' = [req EXCEPT ![p] =
                 GetResumeResponse([Idle EXCEPT !.op = "getInfo", !.id = id])]
    /\ UNCHANGED <<students, disk, now, uploaded, faults>>

\* ------------------------------------ POST /api/students/{id}/resume/analyze
\* (mutant of AnalyzeBegin: the check for a resumeFile is missing)
AnalyzeBeginWithoutCheck(p, id) ==
    /\ Free(p)
    /\ LET r == [Idle EXCEPT !.op = "analyze", !.id = id]
       IN  req' = [req EXCEPT ![p] =
             IF ~IsObjectId(id)
               THEN Respond(r, 500, "Failed to analyze resume", <<>>)
             ELSE IF FindOne(id) = <<>>
               THEN Respond(r, 404, "Student not found", <<>>)
             ELSE [r EXCEPT !.pc = "update", !.student = FindOne(id)]]
    /\ UNCHANGED <<students, disk, now, uploaded, faults>>

AnalyzeBegin(p, id) ==
    /\ Free(p)
    /\ LET r == [Idle EXCEPT !.op = "analyze", !.id = id]
       IN  req' = [req EXCEPT ![p] =
             IF ~IsObjectId(id)
               THEN Respond(r, 500, "Failed to analyze resume", <<>>)
             ELSE IF FindOne(id) = <<>>
               THEN Respond(r, 404, "Student not found", <<>>)
             ELSE IF FindOne(id)[1].resumeFile = <<>>
               THEN Respond(r, 400, "No resume file found", <<>>)
             ELSE [r EXCEPT !.pc = "update", !.student = FindOne(id)]]
    /\ UNCHANGED <<students, disk, now, uploaded, faults>>

\* the mock analysis: the same scores for every resume (overallScore 8.5, in
\* tenths; lastAnalyzed, a timestamp no handler reads back, is not carried)
Analysis == [overallScore |-> 85]

AnalyzeUpdate(p) ==
    /\ req[p].op = "analyze" /\ req[p].pc = "update"
    /\ students' = SetResumeAnalysis(req[p].id, Analysis)
    /\ req' = [req EXCEPT ![p] =
                 Respond(@, 200, "Resume analyzed successfully", <<>>)]
    /\ UNCHANGED <<disk, now, uploaded, faults>>

\* ----------------------------------------- DELETE /api/students/{id}/resume
DeleteBegin(p, id) ==
    /\ Free(p)
    /\ LET r == [Idle EXCEPT !.op = "delete", !.id = id]
       IN  req' = [req EXCEPT ![p] =
             IF ~IsObjectId(id)
               THEN Respond(r, 500, "Failed to delete resume", <<>>)
             ELSE IF FindOne(id) = <<>>
               THEN Respond(r, 404, "Student not found", <<>>)
             ELSE IF FindOne(id)[1].resumeFile = <<>>
               THEN Respond(r, 404, "No resume found", <<>>)
             ELSE [r EXCEPT !.pc = "unlink", !.student = FindOne(id)]]
    /\ uploaded' = [i \in ObjectIds |->
                      IF i = id /\ req'[p].pc # "done" THEN <<>>
                      ELSE uploaded[i]]
    /\ UNCHANGED <<students, disk, now, faults>>

\* "Delete file from disk": file_path.unlink() when the file exists
DeleteUnlink(p) ==
    /\ req[p].op = "delete" /\ req[p].pc = "unlink"
    /\ disk' = Unlink(req[p].student[1].resumeFile[1].filePath)
    /\ req' = [req EXCEPT ![p].pc = "update"]
    /\ UNCHANGED <<students, now, uploaded, faults>>

\* (mutant of DeleteUnlinkFails: the exception of unlink() is not caught
\* around the call and ends the request)
DeleteUnlinkFailsAborts(p) ==
    /\ faults < MaxFaults
    /\ faults' = faults + 1
    /\ req[p].op = "delete" /\ req[p].pc = "unlink"
    /\ Exists(req[p].student[1].resumeFile[1].filePath)
    /\ req' = [req EXCEPT ![p] = Respond(@, 500, "Failed to delete resume", <<>>)]
    /\ UNCHANGED <<students, disk, now, uploaded>>

\* file_path.unlink() raises: logged as a warning, the delete goes on
DeleteUnlinkFails(p) ==
    /\ faults < MaxFaults
    /\ faults' = faults + 1
    /\ req[p].op = "delete" /\ req[p].pc = "unlink"
    /\ Exists(req[p].student[1].resumeFile[1].filePath)
    /\ req' = [req EXCEPT ![p].pc = "update", ![p].warned = TRUE]
    /\ UNCHANGED <<students, disk, now, uploaded>>

\* "Clear resume data from student" and the response
DeleteUpdate(p) ==
    /\ req[p].op = "delete" /\ req[p].pc = "update"
    /\ students' = UnsetResume(req[p].id)
    /\ req' = [req EXCEPT ![p] =
                 Respond(@, 200, "Resume deleted successfully", <<>>)]
    /\ UNCHANGED <<disk, now, uploaded, faults>>

\* ------------------------------------------------ GET /api/students/{id}
\* ObjectId(student_id) raises InvalidId, which is no HTTPException: the
\* handler answers 500.
GetStudentResponse(r) ==
    IF ~IsObjectId(r.id)
      THEN Respond(r, 500, "Failed to fetch student", <<>>)
    ELSE IF FindOne(r.id) = <<>>
      THEN Respond(r, 404, "Student not found", <<>>)
    ELSE Respond(r, 200, "", <<FindOne(r.id)[1]>>)

GetStudent(p, id) ==
    /\ Free(p)
    /\ req' = [req EXCEPT ![p] =
                 GetStudentResponse([Idle EXCEPT !.op = "get", !.id = id])]
    /\ UNCHANGED <<students, disk, now, uploaded, faults>>

\* ---------------------------------------------------- POST /api/students
\* students_collection.find_one({"email": email})
FindByEmail(email) ==
    \E id \in DOMAIN students :
        students[id] # <<>> /\ students[id][1].email = email

\* creates being handled that have passed the check and not inserted yet
Inserting == {q \in Procs : req[q].op = "create" /\ req[q].pc = "insert"}

\* documents in the collection
Stored == {id \in ObjectIds : students[id] # <<>>}

\* "Check if student already exists".  (The collection is capped at
\* MaxStudents documents: no create is taken up when it could not insert.)
CreateBegin(p, profile) ==
    /\ Free(p)
    /\ Cardinality(Stored) + Cardinality(Inserting) < MaxStudents
    /\ LET r == [Idle EXCEPT !.op = "create", !.profile = profile]
       IN  req' = [req EXCEPT ![p] =
             IF FindByEmail(profile.email)
               THEN Respond(r, 409, "Student with this email already exists",
                            <<>>)
             ELSE [r EXCEPT !.pc = "insert"]]
    /\ UNCHANGED <<students, disk, now, uploaded, faults>>

\* the document insert_one stores
StudentData(profile) ==
    [name |-> profile.name, email |-> profile.email,
     resumeFile |-> <<>>, resumeAnalysis |-> <<>>]

\* insert_one: the collection hands out the next unused ObjectId
CreateInsert(p) ==
    /\ req[p].op = "create" /\ req[p].pc = "insert"
    /\ \E i \in 1..MaxStudents :
         /\ students[IdPool[i]] = <<>>
         /\ \A j \in 1..(i - 1) : students[IdPool[j]] # <<>>
         /\ students' = [students EXCEPT ![IdPool[i]] =
                           <<StudentData(req[p].profile)>>]
         /\ req' = [req EXCEPT ![p] =
                      Respond([@ EXCEPT !.id = IdPool[i]], 200,
                              "Student created successfully", <<>>)]
    /\ UNCHANGED <<disk, now, uploaded, faults>>

\* ------------------------------------------------------- failing storage
\* open()/write() raises (disk full, permission denied): the handler answers
\* 500.  The file is either not created or left truncated.
UploadWriteFails(p) ==
    /\ faults < MaxFaults
    /\ faults' = faults + 1
    /\ req[p].op = "upload" /\ req[p].pc = "write"
    /\ \/ disk' = disk
       \/ disk' = WriteFile(req[p].path, NoContent)
    /\ req' = [req EXCEPT ![p] = Respond(@, 500, "Failed to upload resume", <<>>)]
    /\ UNCHANGED <<students, now, uploaded>>

\* update_one raises (database unreachable): the handler answers 500
UploadUpdateFails(p) ==
    /\ faults < MaxFaults
    /\ faults' = faults + 1
    /\ req[p].op = "upload" /\ req[p].pc = "update"
    /\ req' = [req EXCEPT ![p] = Respond(@, 500, "Failed to upload resume", <<>>)]
    /\ UNCHANGED <<students, disk, now, uploaded>>

DeleteUpdateFails(p) ==
    /\ faults < MaxFaults
    /\ faults' = faults + 1
    /\ req[p].op = "delete" /\ req[p].pc = "update"
    /\ req' = [req EXCEPT ![p] = Respond(@, 500, "Failed to delete resume", <<>>)]
    /\ UNCHANGED <<students, disk, now, uploaded>>

AnalyzeUpdateFails(p) ==
    /\ faults < MaxFaults
    /\ faults' = faults + 1
    /\ req[p].op = "analyze" /\ req[p].pc = "update"
    /\ req' = [req EXCEPT ![p] = Respond(@, 500, "Failed to analyze resume", <<>>)]
    /\ UNCHANGED <<students, disk, now, uploaded>>

CreateInsertFails(p) ==
    /\ faults < MaxFaults
    /\ faults' = faults + 1
    /\ req[p].op = "create" /\ req[p].pc = "insert"
    /\ req' = [req EXCEPT ![p] = Respond(@, 500, "Failed to create student", <<>>)]
    /\ UNCHANGED <<students, disk, now, uploaded>>

\* --------------------------------------------------------- specifications
\* a request arrives at worker p
Begin(p) ==
    \/ \E id \in RequestIds, f \in Filenames : UploadBegin(p, id, f)
    \/ \E id \in RequestIds : Download(p, id)
    \/ \E id \in RequestIds : GetResume(p, id)
    \/ \E id \in RequestIds : AnalyzeBegin(p, id)
    \/ \E id \in RequestIds : DeleteBegin(p, id)
    \/ \E id \in RequestIds : GetStudent(p, id)
    \/ \E pr \in Profiles : CreateBegin(p, pr)

\* worker p goes on with the request it is handling
Continue(p) ==
    \/ \E c \in Contents : UploadRead(p, c)
    \/ UploadUnlinkOld(p)
    \/ UploadUnlinkOldFails(p)
    \/ UploadWrite(p)
    \/ UploadUpdate(p)
    \/ AnalyzeUpdate(p)
    \/ DeleteUnlink(p)
    \/ DeleteUnlinkFails(p)
    \/ DeleteUpdate(p)
    \/ CreateInsert(p)

\* a write to the file system or to the database fails
Fail(p) ==
    \/ UploadWriteFails(p)
    \/ UploadUpdateFails(p)
    \/ DeleteUpdateFails(p)
    \/ AnalyzeUpdateFails(p)
    \/ CreateInsertFails(p)

\* Requests handled one at a time on storage that accepts every write
\* (removing a file may still fail: the handlers provide for it).
Next == Begin(1) \/ Continue(1) \/ Tick
Spec == Init /\ [][Next]_vars

\* Requests handled one at a time; any write to storage may fail.
FaultNext == Begin(1) \/ Continue(1) \/ Fail(1) \/ Tick
FaultSpec == Init /\ [][FaultNext]_vars

\* POST /api/students and GET /api/students/{id} handled by two workers on
\* the same database, their steps interleaved: the handlers take no lock and
\* the collection has no unique index.
CreateRaceNext ==
    \E p \in Procs :
        \/ \E pr \in Profiles : CreateBegin(p, pr)
        \/ CreateInsert(p)
        \/ \E id \in RequestIds : GetStudent(p, id)
CreateRaceSpec == Init /\ [][CreateRaceNext]_vars

\* The student the interleaved requests below are about: the first one created.
RaceStudent == IdPool[1]

\* Uploads for one student handled by two workers on the same database and
\* directory, their steps interleaved: upload_student_resume takes no lock
\* between its find_one, its unlink, its write and its update_one.  (The
\* student is created through worker 1, the requests name a .pdf file, and
\* storage accepts every call: what a request with other input or a failing
\* call does is in Spec and FaultSpec.)
UploadRaceNext ==
    \/ \E pr \in Profiles : CreateBegin(1, pr)
    \/ CreateInsert(1)
    \/ \E p \in Procs :
          \/ UploadBegin(p, RaceStudent, PdfA)
          \/ \E c \in Contents : UploadRead(p, c)
          \/ UploadUnlinkOld(p)
          \/ UploadWrite(p)
          \/ UploadUpdate(p)
    \/ Tick
UploadRaceSpec == Init /\ [][UploadRaceNext]_vars

\* Uploads, analyses and deletes handled by two workers on the same database
\* and directory, their steps interleaved: no handler takes a lock between
\* its find_one, its file operation and its update_one.  (Same requests and
\* storage as in UploadRaceNext.)
ResumeRaceNext ==
    \/ \E pr \in Profiles : CreateBegin(1, pr)
    \/ CreateInsert(1)
    \/ \E p \in Procs :
          \/ UploadBegin(p, RaceStudent, PdfA)
          \/ \E c \in Contents : UploadRead(p, c)
          \/ UploadUnlinkOld(p)
          \/ UploadWrite(p)
          \/ UploadUpdate(p)
          \/ AnalyzeBegin(p, RaceStudent)
          \/ AnalyzeUpdate(p)
          \/ DeleteBegin(p, RaceStudent)
          \/ DeleteUnlink(p)
          \/ DeleteUpdate(p)
    \/ Tick
ResumeRaceSpec == Init /\ [][ResumeRaceNext]_vars

\* ------------------------------------------------------------------ claims
\* the record of student id has a resumeFile
HasResume(id) == FindOne(id) # <<>> /\ FindOne(id)[1].resumeFile # <<>>

\* what a download of student id's resume would answer in this state
DownloadNow(id) == DownloadResponse([Idle EXCEPT !.op = "download", !.id = id])

\* worker p has answered op with status
Answered(p, op, status) ==
    req[p].op = op /\ req[p].pc = "done" /\ req[p].status = status

\* worker p has finished an upload that replaced a resume
Replaced(p) ==
    Answered(p, "upload", 200) /\ req[p].student[1].resumeFile # <<>>

\* C1: while an upload is being handled, the file the student's record
\* references is on disk: the old file is not removed before the record
\* points at the new one.
C1_OldFileKeptWhileReferenced ==
    \A p \in Procs :
        (req[p].op = "upload" /\ ~Free(p) /\ HasResume(req[p].id)) =>
            Exists(FindOne(req[p].id)[1].resumeFile[1].filePath)

\* C2: whenever no request is being handled (in particular after an upload
\* or a delete that failed part-way), every record with a resumeFile
\* references a file that exists on disk.
C2_ReferencedFileExists ==
    (\A p \in Procs : Free(p)) =>
        \A id \in ObjectIds :
            HasResume(id) => Exists(FindOne(id)[1].resumeFile[1].filePath)

\* C3: a download answered while the student's last successful upload has
\* not been followed by another upload or a delete for that student answers
\* 200 with exactly the uploaded bytes.
C3_DownloadReturnsUploaded ==
    \A p \in Procs :
        (/\ req[p].op = "download" /\ req[p].pc = "done"
         /\ req[p].id \in ObjectIds
         /\ uploaded[req[p].id] # <<>>) =>
            /\ req[p].status = 200
            /\ req[p].body = uploaded[req[p].id]

C3_Witness ==
    /\ Answered(1, "download", 200)
    /\ req[1].id \in ObjectIds
    /\ uploaded[req[1].id] # <<>>
    /\ req[1].body = uploaded[req[1].id]
    /\ req[1].body[1].len = MAX_FILE_SIZE

\* C4 (as stated): once upload B has replaced upload A, download returns B's
\* bytes and, unless removing A's file failed, no file exists at A's path.
C4_OldFileGone ==
    \A p \in Procs :
        Replaced(p) =>
            /\ DownloadNow(req[p].id).status = 200
            /\ DownloadNow(req[p].id).body = uploaded[req[p].id]
            /\ ~req[p].warned =>
                 ~Exists(req[p].student[1].resumeFile[1].filePath)

\* C4 (amended): once upload B has replaced upload A, download returns B's
\* bytes and, unless removing A's file failed or B was stored under A's name
\* (same filename within the same second), no file exists at A's path.
C4_OldFileGoneUnlessSameName ==
    \A p \in Procs :
        Replaced(p) =>
            /\ DownloadNow(req[p].id).status = 200
            /\ DownloadNow(req[p].id).body = uploaded[req[p].id]
            /\ ~req[p].warned =>
                 \/ ~Exists(req[p].student[1].resumeFile[1].filePath)
                 \/ req[p].student[1].resumeFile[1].filePath = req[p].path

C4_Witness ==
    /\ Replaced(1)
    /\ ~req[1].warned
    /\ req[1].student[1].resumeFile[1].filePath # req[1].path
    /\ ~Exists(req[1].student[1].resumeFile[1].filePath)
    /\ DownloadNow(req[1].id).body = uploaded[req[1].id]

\* C5: getInfo on a well-formed id answers 404 when the student does not
\* exist or has no resumeFile.
C5_GetInfoNotFound ==
    \A p \in Procs :
        (/\ req[p].op = "getInfo" /\ req[p].pc = "done"
         /\ IsObjectId(req[p].id)
         /\ ~HasResume(req[p].id)) =>
            req[p].status = 404

\* C6: a delete that found a resume answers 200 and leaves the record without
\* resumeFile and without resumeAnalysis, whether or not removing the file
\* failed; when removing it did not fail, the file the record referenced is
\* not on disk.
C6_DeleteClears ==
    \A p \in Procs :
        (req[p].op = "delete" /\ req[p].pc = "done" /\ req[p].student # <<>>) =>
            /\ req[p].status = 200
            /\ FindOne(req[p].id) # <<>>
            /\ FindOne(req[p].id)[1].resumeFile = <<>>
            /\ FindOne(req[p].id)[1].resumeAnalysis = <<>>
            /\ ~req[p].warned =>
                 ~Exists(req[p].student[1].resumeFile[1].filePath)

C6_Witness ==
    /\ Answered(1, "delete", 200)
    /\ req[1].warned
    /\ req[1].student[1].resumeAnalysis # <<>>
    /\ Exists(req[1].student[1].resumeFile[1].filePath)
    /\ ~HasResume(req[1].id)
    /\ FindOne(req[1].id)[1].resumeAnalysis = <<>>

\* C7: no two student records have the same email.
C7_EmailUnique ==
    \A i \in Stored : \A j \in Stored :
        i # j => students[i][1].email # students[j][1].email

\* C8: an upload longer than MAX_FILE_SIZE is answered 413 without ever
\* reaching the steps that touch the directory or the collection; an upload of exactly MAX_FILE_SIZE bytes with
\* a .pdf filename to an existing student is taken up and ends with 200, the
\* file on disk and the record pointing at it.
C8_SizeLimitInclusive ==
    \A p \in Procs :
        req[p].op = "upload" =>
            /\ req[p].content.len > MAX_FILE_SIZE =>
                 /\ req[p].pc = "done"
                 /\ req[p].student = <<>>
                 /\ req[p].status = 413
            /\ (/\ req[p].content.len = MAX_FILE_SIZE
                /\ EndsWith(req[p].filename, DotPdf)
                /\ FindOne(req[p].id) # <<>>) =>
                 /\ req[p].student # <<>>
                 /\ req[p].pc = "done" =>
                      /\ req[p].status = 200
                      /\ HasResume(req[p].id)
                      /\ FindOne(req[p].id)[1].resumeFile[1].filePath
                           = req[p].path
                      /\ FindOne(req[p].id)[1].resumeFile[1].fileSize
                           = MAX_FILE_SIZE
                      /\ Exists(req[p].path)
                      /\ disk[req[p].path] = req[p].content

C8_Witness ==
    /\ Answered(1, "upload", 200)
    /\ req[1].content.len = MAX_FILE_SIZE
    /\ HasResume(req[1].id)
    /\ FindOne(req[1].id)[1].resumeFile[1].filePath = req[1].path
    /\ FindOne(req[1].id)[1].resumeFile[1].fileSize = MAX_FILE_SIZE
    /\ disk[req[1].path].len = MAX_FILE_SIZE

\* C9: analyze on an existing student without resumeFile answers 400 and the
\* record has no resumeAnalysis.
C9_AnalyzeWithoutResume ==
    \A p \in Procs :
        (/\ req[p].op = "analyze" /\ req[p].pc = "done"
         /\ FindOne(req[p].id) # <<>>
         /\ FindOne(req[p].id)[1].resumeFile = <<>>) =>
            /\ req[p].status = 400
            /\ FindOne(req[p].id)[1].resumeAnalysis = <<>>

\* (the student has uploaded and deleted before: the file of the deleted
\* resume, which could not be removed, is still on disk)
C9_Witness ==
    /\ Answered(1, "analyze", 400)
    /\ FindOne(req[1].id) # <<>>
    /\ FindOne(req[1].id)[1].resumeFile = <<>>
    /\ FindOne(req[1].id)[1].resumeAnalysis = <<>>
    /\ \E path \in DOMAIN disk : path[1] = req[1].id

\* C10: get answers 404 when no student has the id and when the id is not a
\* well-formed identifier.
C10_GetNotFound ==
    \A p \in Procs :
        (/\ req[p].op = "get" /\ req[p].pc = "done"
         /\ (~IsObjectId(req[p].id) \/ FindOne(req[p].id) = <<>>)) =>
            req[p].status = 404

\* C11: when uploads for the same student interleave, every upload's
\* update_one puts that upload's own resumeFile in the record, whatever the
\* record held and whatever the other upload has done, and no other step of
\* an upload changes a record's resumeFile: the record carries the resumeFile
\* of the upload that updated it last.
C11_LastUpdateWins ==
    [][ /\ \A p \in Procs :
            (req[p].op = "upload" /\ req[p].pc = "update" /\ req'[p].pc = "done")
                => /\ req'[p].status = 200
                   /\ students'[req[p].id] # <<>>
                   /\ students'[req[p].id][1].resumeFile = <<ResumeData(req[p])>>
        /\ \A id \in ObjectIds :
            (students[id] # <<>> /\ students'[id] # students[id])
                => \E p \in Procs :
                      /\ req[p].op = "upload" /\ req[p].pc = "update"
                      /\ req[p].id = id /\ req'[p].pc = "done"
      ]_vars

\* Two uploads for the same student have both answered 200, the record
\* carries the resumeFile of one of them, and the file the other one wrote is
\* still on disk with no record referring to it.
C11_Witness ==
    \E p \in Procs, q \in Procs :
        /\ p # q
        /\ Answered(p, "upload", 200) /\ Answered(q, "upload", 200)
        /\ req[p].id = req[q].id
        /\ HasResume(req[p].id)
        /\ FindOne(req[p].id)[1].resumeFile = <<ResumeData(req[p])>>
        /\ req[q].path # req[p].path
        /\ Exists(req[q].path)
        /\ \A id \in ObjectIds :
              HasResume(id) => FindOne(id)[1].resumeFile[1].filePath # req[q].path

\* C12: in every state reached by interleaved upload, analyze and delete
\* requests on the same student, a record that carries a resumeAnalysis also
\* carries a resumeFile.
C12_AnalysisOnlyWithResume ==
    \A id \in ObjectIds :
        (FindOne(id) # <<>> /\ FindOne(id)[1].resumeAnalysis # <<>>)
            => FindOne(id)[1].resumeFile # <<>>

====
